---- MODULE Spec2Model ----
(***************************************************************************)
(* Model of the editor's node hooks (core/components/hooks/node.ts) and of *)
(* the drag source of Draggable.                                           *)
(*                                                                         *)
(*   SpecData : useDebouncedCellData, one mounted hook instance.  React's  *)
(*              render, its passive effect, the lodash debounce timer and  *)
(*              the store are separate steps of one event loop.            *)
(*   SpecTree : the selector hooks over a document tree.                   *)
(*   SpecHover: useNodeHoverPosition over the hover state.                 *)
(*   SpecDrag : the begin/end callbacks of the drag source.                *)
(***************************************************************************)
EXTENDS Integers, Sequences, FiniteSets, TLC

\* ------------------------------------------------------------------------
\* Bounds
\* ------------------------------------------------------------------------
\* number of clock ticks the debounce wait is divided into
TicksPerWait == 2
\* longest run of onChange calls without a propagation in between
MaxBurst == 3
\* number of nodes (rows and cells) of the document
MaxNodes == 5
\* number of drags of one Draggable
MaxDrags == 2

\* ------------------------------------------------------------------------
\* Values
\* ------------------------------------------------------------------------
\* a data object is a finite map from keys ("a", "b") to values ("x", "y")
EmptyData == [k \in {} |-> "x"]
\* the partial objects handed to onChange: nothing, a key that gets a new
\* value, a key that is added
Partials == {EmptyData, [k \in {"a"} |-> "y"], [k \in {"b"} |-> "y"]}
\* the data the store holds at mount and the data somebody else writes to it
InitialData == {[k \in {"a"} |-> "x"]}
OutsideData == {EmptyData, [k \in {"a"} |-> "x"]}
\* the options argument of onChange; Undefined is "no arguments recorded"
OptionValues == {"o1", "o2"}
Undefined == "undefined"
\* null where a string is expected, null where an object is expected
Null == "null"
NullObj == [null |-> TRUE]
IsNullObj(o) == "null" \in DOMAIN o
\* lastOp tells an onChange and a run of the effect from every other step
Other == "other"

VARIABLES
  \* ---- useDebouncedCellData --------------------------------------------
  store,          \* the store's data of the cell in the current language
  cellDataFresh,  \* the selector produced a new cellData object since the last render
  cellData,       \* cellData of the last render
  changed,        \* the memoized `changed` of the last render
  effectPending,  \* the passive effect of the last render has not run yet
  dataRef,        \* dataRef.current
  cellDataRef,    \* cellDataRef.current
  renderQueued,   \* setData was called since the last render
  returned,       \* first element of the pair returned by the last render
  timerPending,   \* the debounce holds a timer id
  timerRemaining, \* time until that timer is due
  sinceLastCall,  \* time since the last call of the debounced function (saturates at Wait)
  lastArgs,       \* arguments recorded by the debounce
  \* history of the last step and of the current burst
  lastOp,         \* the last step: "onChange", "effect" or Other
  invoked,        \* the last step called updateCellData
  sentData,       \* ... with this data
  sentOptions,    \* ... and these options
  sentLen,        \* ... after this many onChange calls since the propagation before
  sentExpected,   \* ... burstExpected at that call
  sentAdopted,    \* ... burstAdopted at that call
  prevData,       \* dataRef.current before the last onChange
  lastPartial,    \* the partial of the last onChange
  burstLen,       \* onChange calls since the last propagation
  burstExpected,  \* data before the burst with the burst's partials laid over it in call order
  burstAdopted,   \* the effect adopted outside data since the burst began
  \* ---- the document and the selector hooks -----------------------------
  parentOf,       \* parentOf[i]: index of the parent of node i, 0 for the document
  cellAttr,       \* cellAttr[i]: plugin, inline and hasInlineNeighbour of cell i
  editable,       \* the document in the store: nested rows and cells
  hover,          \* state.reactPage.hover
  result,         \* the last hook call: hook, nodeId and returned value
  \* ---- Draggable -------------------------------------------------------
  dragNodeId,     \* nodeId of the mounted Draggable
  phase,          \* "idle", "dragging" or "ended"
  didDrop,        \* monitor.didDrop()
  dispatched,     \* actions dispatched since the current drag began
  drags           \* number of drags begun

dataVars == <<store, cellDataFresh, cellData, changed, effectPending, dataRef,
              cellDataRef, renderQueued, returned, timerPending, timerRemaining,
              sinceLastCall, lastArgs, lastOp, invoked, sentData, sentOptions,
              sentLen, sentExpected, sentAdopted,
              prevData, lastPartial, burstLen, burstExpected, burstAdopted>>

treeVars == <<parentOf, cellAttr, editable>>
hookVars == <<hover, result>>
dragVars == <<dragNodeId, phase, didDrop, dispatched, drags>>

vars == <<dataVars, treeVars, hookVars, dragVars>>

\* what the steps of one part leave alone
notDebounced == <<treeVars, hookVars, dragVars>>
notHooks == <<dataVars, treeVars, dragVars>>
notDraggable == <<dataVars, treeVars, hookVars>>

\* ------------------------------------------------------------------------
\* useDebouncedCellData
\* ------------------------------------------------------------------------
\* debounce(fn, 200)
Wait == 200
Tick == Wait \div TicksPerWait
\* lodash.debounce defaults: { leading: false, trailing: true }
LeadingOn == TRUE
Leading == FALSE
Trailing == TRUE

deepEquals(a, b) == a = b

\* { ...partialData, ...data }
MergeReversed(data, partialData) ==
  [k \in (DOMAIN data) \cup (DOMAIN partialData) |->
     IF k \in DOMAIN data THEN data[k] ELSE partialData[k]]

\* { ...data, ...partialData }
Merge(data, partialData) ==
  [k \in (DOMAIN data) \cup (DOMAIN partialData) |->
     IF k \in DOMAIN partialData THEN partialData[k] ELSE data[k]]

\* debounce: shouldInvoke(time)
shouldInvoke == sinceLastCall >= Wait

\* what the body of the debounced function does: propagate the hook's data
\* (cellDataRef.current = dataRef.current; updateCellData(dataRef.current, options))
Propagate(data, options) ==
  /\ cellDataRef' = data
  /\ store' = data
  /\ cellDataFresh' = (cellDataFresh \/ ~deepEquals(data, store))
  /\ invoked' = TRUE
  /\ sentData' = data
  /\ sentOptions' = options
  /\ sentLen' = burstLen
  /\ sentExpected' = burstExpected
  /\ sentAdopted' = burstAdopted
  /\ burstLen' = 0
  /\ burstExpected' = EmptyData
  /\ burstAdopted' = FALSE

\* the history of the last onChange is kept for the step after it only
ForgetChange ==
  /\ prevData' = EmptyData
  /\ lastPartial' = EmptyData

NotInvoked ==
  /\ invoked' = FALSE
  /\ sentData' = EmptyData
  /\ sentOptions' = Undefined
  /\ sentLen' = 0
  /\ sentExpected' = EmptyData
  /\ sentAdopted' = FALSE

NoPropagate ==
  /\ UNCHANGED <<cellDataRef, store, cellDataFresh>>
  /\ NotInvoked

InitDebounced ==
  /\ store \in InitialData
  /\ cellDataFresh = FALSE
  /\ cellData = store
  /\ changed = FALSE
  /\ effectPending = FALSE
  /\ dataRef = store
  /\ cellDataRef = store
  /\ renderQueued = FALSE
  /\ returned = store
  /\ timerPending = FALSE
  /\ timerRemaining = 0
  /\ sinceLastCall = Wait
  /\ lastArgs = Undefined
  /\ lastOp = Other
  /\ invoked = FALSE
  /\ sentData = EmptyData
  /\ sentOptions = Undefined
  /\ sentLen = 0
  /\ sentExpected = EmptyData
  /\ sentAdopted = FALSE
  /\ prevData = EmptyData
  /\ lastPartial = EmptyData
  /\ burstLen = 0
  /\ burstExpected = EmptyData
  /\ burstAdopted = FALSE

\* onChange(partialData, options)
onChange(partialData, options) ==
  /\ burstLen < MaxBurst
  /\ lastOp' = "onChange"
  /\ prevData' = dataRef
  /\ lastPartial' = partialData
  /\ dataRef' = Merge(dataRef, partialData)
  /\ renderQueued' = TRUE
  \* updateCellDataDebounced(options)
  /\ lastArgs' = IF Leading /\ shouldInvoke /\ ~timerPending THEN Undefined ELSE options
  /\ sinceLastCall' = 0
  /\ timerPending' = TRUE
  /\ timerRemaining' = IF timerPending THEN timerRemaining ELSE Wait
  /\ IF Leading /\ shouldInvoke /\ ~timerPending
       THEN Propagate(dataRef', options)
       ELSE /\ NoPropagate
            /\ burstLen' = burstLen + 1
            /\ burstExpected' =
                 LET base == IF burstLen = 0 THEN dataRef ELSE burstExpected
                 IN  [k \in (DOMAIN base) \cup (DOMAIN partialData) |->
                        IF k \in DOMAIN partialData THEN partialData[k] ELSE base[k]]
            /\ burstAdopted' = (burstLen > 0 /\ burstAdopted)
  /\ UNCHANGED <<cellData, changed, effectPending, returned>>
  /\ UNCHANGED notDebounced

\* debounce: timerExpired()
timerExpired ==
  /\ timerPending
  /\ timerRemaining = 0
  /\ lastOp' = Other
  /\ IF shouldInvoke
       THEN \* trailingEdge
            /\ timerPending' = FALSE
            /\ timerRemaining' = 0
            /\ lastArgs' = Undefined
            /\ IF Trailing /\ lastArgs # Undefined
                 THEN Propagate(dataRef, lastArgs)
                 ELSE NoPropagate /\ UNCHANGED <<burstLen, burstExpected, burstAdopted>>
       ELSE \* restart the timer with remainingWait
            /\ timerPending' = TRUE
            /\ timerRemaining' = Wait - sinceLastCall
            /\ NoPropagate
            /\ UNCHANGED <<lastArgs, burstLen, burstExpected, burstAdopted>>
  /\ UNCHANGED <<cellData, changed, effectPending, dataRef, renderQueued,
                 returned, sinceLastCall>>
  /\ ForgetChange
  /\ UNCHANGED notDebounced

\* time passes
tick ==
  /\ sinceLastCall < Wait \/ (timerPending /\ timerRemaining > 0)
  /\ lastOp' = Other
  /\ sinceLastCall' = IF sinceLastCall + Tick > Wait THEN Wait ELSE sinceLastCall + Tick
  /\ timerRemaining' = IF timerRemaining > Tick THEN timerRemaining - Tick ELSE 0
  /\ NoPropagate
  /\ UNCHANGED <<cellData, changed, effectPending, dataRef, renderQueued, returned,
                 timerPending, lastArgs, burstLen, burstExpected, burstAdopted>>
  /\ ForgetChange
  /\ UNCHANGED notDebounced

\* the store's data of the cell is changed by somebody else
outsideChange(data) ==
  /\ ~deepEquals(data, store)
  /\ lastOp' = Other
  /\ store' = data
  /\ cellDataFresh' = TRUE
  /\ UNCHANGED cellDataRef
  /\ NotInvoked
  /\ UNCHANGED <<cellData, changed, effectPending, dataRef, renderQueued, returned,
                 timerPending, timerRemaining, sinceLastCall, lastArgs, burstLen,
                 burstExpected, burstAdopted>>
  /\ ForgetChange
  /\ UNCHANGED notDebounced

\* dataRef.current = { ...dataRef.current, ...cellData }
effectDataRefMerging == IF effectPending /\ changed THEN Merge(dataRef, cellData) ELSE dataRef

\* refs after the effect of the last render
effectDataRef == IF effectPending /\ changed THEN cellData ELSE dataRef
effectCellDataRef == IF effectPending /\ changed THEN cellData ELSE cellDataRef

\* useEffect(() => { if (changed) {...} }, [changed, cellData])
effect ==
  /\ effectPending
  /\ lastOp' = "effect"
  /\ effectPending' = FALSE
  /\ dataRef' = effectDataRef
  /\ cellDataRef' = effectCellDataRef
  /\ renderQueued' = (renderQueued \/ changed)
  /\ burstAdopted' = (burstAdopted \/ changed)
  /\ UNCHANGED <<store, cellDataFresh>>
  /\ NotInvoked
  /\ UNCHANGED <<cellData, changed, returned, timerPending, timerRemaining,
                 sinceLastCall, lastArgs, burstLen, burstExpected>>
  /\ ForgetChange
  /\ UNCHANGED notDebounced

\* a render of the component that uses the hook; React runs a pending passive
\* effect of the previous render before it renders again
render ==
  /\ cellDataFresh \/ renderQueued
  /\ lastOp' = Other
  /\ dataRef' = effectDataRef
  /\ cellDataRef' = effectCellDataRef
  /\ burstAdopted' = (burstAdopted \/ (effectPending /\ changed))
  /\ cellData' = store
  /\ cellDataFresh' = FALSE
  /\ changed' = IF cellDataFresh THEN ~deepEquals(store, cellDataRef') ELSE changed
  /\ effectPending' = cellDataFresh
  /\ renderQueued' = FALSE
  /\ returned' = dataRef'
  /\ UNCHANGED store
  /\ NotInvoked
  /\ UNCHANGED <<timerPending, timerRemaining, sinceLastCall, lastArgs, burstLen,
                 burstExpected>>
  /\ ForgetChange
  /\ UNCHANGED notDebounced

NextData ==
  \/ \E p \in Partials, o \in OptionValues : onChange(p, o)
  \/ timerExpired
  \/ tick
  \/ \E d \in OutsideData : outsideChange(d)
  \/ effect
  \/ render

\* ------------------------------------------------------------------------
\* The document
\* ------------------------------------------------------------------------
NodeIndex == 1..MaxNodes
idOf(i) == "n" \o ToString(i)
RootId == "root"
MissingId == "missing"
NodeIds == {idOf(i) : i \in NodeIndex}
\* the ids the hooks are called with
QueryIds == NodeIds \cup {MissingId}
Positions == {"left-of", "right-of", "above", "below", "inline-left", "inline-right"}

\* a cell without a plugin, a cell with a plugin, an inline cell with a plugin
PlainCell == [plugin |-> NullObj, inline |-> Null, hasInlineNeighbour |-> Undefined]
CellVariants ==
  { PlainCell,
    [plugin |-> [id |-> "p1"], inline |-> Null, hasInlineNeighbour |-> "nb"],
    [plugin |-> [id |-> "p2"], inline |-> "left", hasInlineNeighbour |-> Undefined] }

\* the rows of the document are at depth 1, their cells at depth 2, ...
RECURSIVE depthOf(_, _)
depthOf(par, i) == IF i = 0 THEN 0 ELSE 1 + depthOf(par, par[i])
rowIndex(par, i) == depthOf(par, i) % 2 = 1

RECURSIVE sortedSeq(_)
sortedSeq(S) ==
  IF S = {} THEN <<>>
  ELSE LET m == CHOOSE x \in S : \A y \in S : x <= y
       IN  <<m>> \o sortedSeq(S \ {m})

\* the node object of node i with its children nested in it
RECURSIVE buildNode(_, _, _)
buildNode(par, attr, i) ==
  LET children == sortedSeq({j \in NodeIndex : par[j] = i})
      nested == [k \in 1..Len(children) |-> buildNode(par, attr, children[k])]
  IN  IF rowIndex(par, i)
        THEN [id |-> idOf(i), cells |-> nested]
        ELSE [id |-> idOf(i), rows |-> nested, plugin |-> attr[i].plugin,
              inline |-> attr[i].inline,
              hasInlineNeighbour |-> attr[i].hasInlineNeighbour]

buildDocument(par, attr) ==
  LET children == sortedSeq({j \in NodeIndex : par[j] = 0})
  IN  [id |-> RootId,
       rows |-> [k \in 1..Len(children) |-> buildNode(par, attr, children[k])]]

ParentFunctions == {par \in [NodeIndex -> 0..(MaxNodes - 1)] : \A i \in NodeIndex : par[i] < i}
AttrFunctions(par) ==
  {attr \in [NodeIndex -> CellVariants] :
     \A i \in NodeIndex : rowIndex(par, i) => attr[i] = PlainCell}

InitDocument ==
  /\ parentOf \in ParentFunctions
  /\ cellAttr \in AttrFunctions(parentOf)
  /\ editable = buildDocument(parentOf, cellAttr)

\* ------------------------------------------------------------------------
\* The selector hooks
\* ------------------------------------------------------------------------
\* isRow(node): the node has cells
isRow(node) == "cells" \in DOMAIN node

\* node.plugin, undefined where the object has no such property
pluginOf(node) == IF "plugin" \in DOMAIN node THEN node.plugin ELSE NullObj

\* depth-first search for the node with the given id; the ancestors are
\* collected nearest first, the document is the last one
RECURSIVE findNode(_, _, _)
findNode(nodes, nodeId, ancestors) ==
  IF nodes = <<>> THEN NullObj
  ELSE LET node == Head(nodes)
       IN  IF node.id = nodeId
             THEN [node |-> node, ancestors |-> ancestors]
             ELSE LET inner == findNode(IF isRow(node) THEN node.cells ELSE node.rows,
                                        nodeId, <<node>> \o ancestors)
                  IN  IF IsNullObj(inner)
                        THEN findNode(Tail(nodes), nodeId, ancestors)
                        ELSE inner

findNodeInState(nodeId) == findNode(editable.rows, nodeId, <<editable>>)

\* what a selector can be called with: null and no ancestors, or a node of
\* the document and its ancestors
selectorArgs ==
  {<<NullObj, <<>> >>}
    \cup {<<found.node, found.ancestors>> : found \in {findNodeInState(id) : id \in NodeIds}}

\* useNodeProps(nodeId, selector); a selector is a function on selectorArgs
useNodeProps(nodeId, selector) ==
  LET found == findNodeInState(nodeId)
  IN  IF IsNullObj(found)
        THEN selector[<<NullObj, <<>> >>]
        ELSE selector[<<found.node, found.ancestors>>]

\* useCell(nodeId)
useCell(nodeId) ==
  useNodeProps(nodeId,
    [args \in selectorArgs |-> IF ~isRow(args[1]) THEN args[1] ELSE NullObj])

\* useRowProps(nodeId, selector)
useRowProps(nodeId, selector) ==
  useNodeProps(nodeId,
    [args \in selectorArgs |-> IF isRow(args[1]) THEN selector[args] ELSE Null])

\* hover?.nodeId and hover?.position
hoverNodeId == IF IsNullObj(hover) THEN Undefined ELSE hover.nodeId
hoverPosition == IF IsNullObj(hover) THEN Undefined ELSE hover.position

\* the hover position is returned for every node
useNodeHoverPositionAny(nodeId) == IF IsNullObj(hover) THEN Null ELSE hoverPosition

\* useNodeHoverPosition(nodeId)
useNodeHoverPosition(nodeId) ==
  IF hoverNodeId = nodeId THEN hoverPosition ELSE Null

\* (node) => !isRow(node) && node.plugin
isPluginCell(node) == ~isRow(node) /\ ~IsNullObj(pluginOf(node))

\* ancestors.find((node) => !isRow(node) && node.plugin)?.id
findPluginCellId(ancestors) ==
  LET hits == {k \in 1..Len(ancestors) : isPluginCell(ancestors[k])}
  IN  IF hits = {} THEN Undefined
      ELSE ancestors[CHOOSE k \in hits : \A l \in hits : k <= l].id

\* [node, ...ancestors].find(...)?.id
useParentCellIdWithSelf(nodeId) ==
  useNodeProps(nodeId,
    [args \in selectorArgs |->
       IF ~IsNullObj(args[1]) THEN findPluginCellId(<<args[1]>> \o args[2]) ELSE Null])

\* useParentCellId(nodeId)
useParentCellId(nodeId) ==
  useNodeProps(nodeId,
    [args \in selectorArgs |->
       IF ~IsNullObj(args[1]) THEN findPluginCellId(args[2]) ELSE Null])

\* ancestors.map((a) => a.id)
idsOf(ancestors) == [k \in 1..Len(ancestors) |-> ancestors[k].id]

\* the HoverTarget of a node with the given ancestor ids; the levels of the
\* target are left out
hoverTargetOf(node, ancestorIds) ==
  [id |-> node.id,
   ancestorIds |-> ancestorIds,
   hasInlineNeighbour |-> IF ~isRow(node) THEN node.hasInlineNeighbour ELSE Null,
   inline |-> IF ~isRow(node) THEN node.inline ELSE Null,
   pluginId |-> IF ~isRow(node)
                  THEN (IF IsNullObj(node.plugin) THEN Undefined ELSE node.plugin.id)
                  ELSE Null]

\* ancestorIds: ancestors.map((a) => a.id), the document included
useNodeAsHoverTargetWithRoot(nodeId) ==
  useNodeProps(nodeId,
    [args \in selectorArgs |->
       IF ~IsNullObj(args[1]) THEN hoverTargetOf(args[1], idsOf(args[2])) ELSE NullObj])

\* useNodeAsHoverTarget(nodeId)
useNodeAsHoverTarget(nodeId) ==
  useNodeProps(nodeId,
    [args \in selectorArgs |->
       IF ~IsNullObj(args[1])
         THEN hoverTargetOf(args[1], idsOf(SubSeq(args[2], 1, Len(args[2]) - 1)))
         ELSE NullObj])

\* a selector for useRowProps that tells whether it got a row or null
selectRowId ==
  [args \in selectorArgs |-> IF IsNullObj(args[1]) THEN "no-row" ELSE args[1].id]

NoCall == [hook |-> "none"]

InitHooks ==
  /\ hover = NullObj
  /\ result = NoCall

\* the pointer moves over a node, or leaves all nodes
setHover(nodeId, position) ==
  /\ hover' = [nodeId |-> nodeId, position |-> position]
  /\ result' = NoCall
  /\ UNCHANGED notHooks

clearHover ==
  /\ ~IsNullObj(hover)
  /\ hover' = NullObj
  /\ result' = NoCall
  /\ UNCHANGED notHooks

\* a component renders with one of the hooks
renderNodeHoverPosition(nodeId) ==
  /\ result' = [hook |-> "useNodeHoverPosition", nodeId |-> nodeId,
                value |-> useNodeHoverPosition(nodeId)]
  /\ UNCHANGED <<hover, notHooks>>

renderParentCellId(nodeId) ==
  /\ result' = [hook |-> "useParentCellId", nodeId |-> nodeId,
                value |-> useParentCellId(nodeId)]
  /\ UNCHANGED <<hover, notHooks>>

renderRowProps(nodeId) ==
  /\ result' = [hook |-> "useRowProps", nodeId |-> nodeId,
                value |-> useRowProps(nodeId, selectRowId)]
  /\ UNCHANGED <<hover, notHooks>>

renderNodeAsHoverTarget(nodeId) ==
  /\ result' = [hook |-> "useNodeAsHoverTarget", nodeId |-> nodeId,
                value |-> useNodeAsHoverTarget(nodeId)]
  /\ UNCHANGED <<hover, notHooks>>

NextHover ==
  \/ \E id \in QueryIds, pos \in Positions : setHover(id, pos)
  \/ clearHover
  \/ \E id \in QueryIds : renderNodeHoverPosition(id)

NextTree ==
  \/ \E id \in QueryIds : renderParentCellId(id)
  \/ \E id \in QueryIds : renderRowProps(id)
  \/ \E id \in QueryIds : renderNodeAsHoverTarget(id)

\* ------------------------------------------------------------------------
\* Draggable
\* ------------------------------------------------------------------------
InitDraggable ==
  /\ dragNodeId \in {id \in NodeIds : ~IsNullObj(useCell(id))}
  /\ phase = "idle"
  /\ didDrop = FALSE
  /\ dispatched = <<>>
  /\ drags = 0

\* begin(monitor): actions.dragCell(cell.id)
begin ==
  /\ phase # "dragging"
  /\ drags < MaxDrags
  /\ phase' = "dragging"
  /\ drags' = drags + 1
  /\ didDrop' = FALSE
  /\ dispatched' = <<[type |-> "dragCell", id |-> useCell(dragNodeId).id]>>
  /\ UNCHANGED <<dragNodeId, notDraggable>>

\* a drop target takes the dragged item
drop ==
  /\ phase = "dragging"
  /\ ~didDrop
  /\ didDrop' = TRUE
  /\ UNCHANGED <<dragNodeId, phase, dispatched, drags, notDraggable>>

\* end(item, monitor) without the early return after a drop
endAlwaysCancels ==
  /\ phase = "dragging"
  /\ phase' = "ended"
  /\ dispatched' = Append(dispatched, [type |-> "cancelCellDrag", id |-> Null])
  /\ UNCHANGED <<dragNodeId, didDrop, drags, notDraggable>>

\* end(item, monitor)
end ==
  /\ phase = "dragging"
  /\ phase' = "ended"
  /\ dispatched' = IF didDrop
                     THEN dispatched
                     ELSE Append(dispatched, [type |-> "cancelCellDrag", id |-> Null])
  /\ UNCHANGED <<dragNodeId, didDrop, drags, notDraggable>>

NextDrag ==
  \/ begin
  \/ drop
  \/ end

\* ------------------------------------------------------------------------
\* Specifications
\* ------------------------------------------------------------------------
\* the parts that a specification does not exercise rest in a fixed state
RestDebounced ==
  /\ store = EmptyData /\ cellDataFresh = FALSE /\ cellData = EmptyData
  /\ changed = FALSE /\ effectPending = FALSE /\ dataRef = EmptyData
  /\ cellDataRef = EmptyData /\ renderQueued = FALSE /\ returned = EmptyData
  /\ timerPending = FALSE /\ timerRemaining = 0 /\ sinceLastCall = Wait
  /\ lastArgs = Undefined /\ lastOp = Other /\ invoked = FALSE
  /\ sentData = EmptyData /\ sentOptions = Undefined /\ sentLen = 0
  /\ sentExpected = EmptyData /\ sentAdopted = FALSE /\ prevData = EmptyData
  /\ lastPartial = EmptyData /\ burstLen = 0 /\ burstExpected = EmptyData
  /\ burstAdopted = FALSE
RestDocument ==
  /\ parentOf = [i \in NodeIndex |-> i - 1]
  /\ cellAttr = [i \in NodeIndex |-> PlainCell]
  /\ editable = buildDocument(parentOf, cellAttr)
RestDraggable ==
  /\ dragNodeId = Null /\ phase = "idle" /\ didDrop = FALSE
  /\ dispatched = <<>> /\ drags = 0

InitData == InitDebounced /\ RestDocument /\ InitHooks /\ RestDraggable
SpecData == InitData /\ [][NextData]_vars
\* time passes and a due timer callback is run
FairSpecData == SpecData /\ WF_vars(tick) /\ WF_vars(timerExpired)

InitTree == RestDebounced /\ InitDocument /\ InitHooks /\ RestDraggable
SpecTree == InitTree /\ [][NextTree]_vars

InitHover == RestDebounced /\ RestDocument /\ InitHooks /\ RestDraggable
SpecHover == InitHover /\ [][NextHover]_vars

InitDrag == RestDebounced /\ InitDocument /\ InitHooks /\ InitDraggable
SpecDrag == InitDrag /\ [][NextDrag]_vars

\* ------------------------------------------------------------------------
\* Properties of useDebouncedCellData
\* ------------------------------------------------------------------------
\* C1: the propagation to the store is debounced.  (1) No onChange step calls
\* updateCellData.  (2) Every call of updateCellData comes from the timer, at
\* least Wait after the last onChange, covers at least one onChange, and,
\* unless the effect adopted outside data since the burst began, carries the
\* data before the burst with all partials of the burst merged in call order.
\* (3) While onChange calls wait for their propagation a timer is armed that
\* is due at most Wait later.  (4) Every burst is propagated in the end.
C1_NoSyncCall == lastOp = "onChange" => ~invoked
C1_OneCallAfterBurst ==
  invoked => /\ lastOp = Other
             /\ sinceLastCall >= Wait
             /\ sentLen >= 1
             /\ ~sentAdopted => sentData = sentExpected
C1_TimerArmed ==
  burstLen > 0 => timerPending /\ lastArgs # Undefined /\ timerRemaining <= Wait
C1_Debounced ==
  /\ [](C1_NoSyncCall /\ C1_OneCallAfterBurst /\ C1_TimerArmed)
  /\ (burstLen > 0) ~> invoked
\* a burst of several onChange calls was propagated with one call that
\* carries both keys
C1_Witness ==
  /\ invoked
  /\ sentLen >= 2
  /\ ~sentAdopted
  /\ DOMAIN sentData = {"a", "b"}
  /\ sentData["a"] = "y"

\* C2: data is always partially updated.  Right after onChange(partialData)
\* every key of partialData has its new value in dataRef.current, every other
\* key of the previous data is still there with its old value, no other key
\* appeared and nothing was propagated yet; a render returns dataRef.current.
C2_PartialUpdate ==
  /\ lastOp = "onChange" =>
       /\ \A k \in DOMAIN lastPartial : k \in DOMAIN dataRef /\ dataRef[k] = lastPartial[k]
       /\ \A k \in (DOMAIN prevData) \ (DOMAIN lastPartial) :
            k \in DOMAIN dataRef /\ dataRef[k] = prevData[k]
       /\ DOMAIN dataRef \subseteq (DOMAIN prevData) \cup (DOMAIN lastPartial)
       /\ ~invoked
  /\ ~renderQueued => returned = dataRef
\* onChange overwrote one key of two and kept the other
C2_Witness ==
  /\ lastOp = "onChange"
  /\ DOMAIN prevData = {"a", "b"}
  /\ DOMAIN lastPartial = {"a"}
  /\ prevData["a"] # lastPartial["a"]

\* C3: a change from outside overwrites whatever is pending.  Right after the
\* effect of a render that saw store data different from cellDataRef.current,
\* both refs hold that data (the store's data, unless the store changed again
\* after the render), whatever onChange calls waited for their propagation;
\* and once render and effect have caught up with the store,
\* cellDataRef.current is the store's data, so no outside change is missed.
C3_OutsideOverwrites ==
  /\ (lastOp = "effect" /\ changed) =>
       /\ dataRef = cellData
       /\ cellDataRef = cellData
       /\ ~cellDataFresh => dataRef = store
  /\ (~cellDataFresh /\ ~effectPending) => cellDataRef = store
  /\ (~cellDataFresh /\ ~effectPending /\ burstLen = 0) => dataRef = store
\* the effect threw away local edits that were waiting for the timer
C3_Witness ==
  /\ lastOp = "effect"
  /\ changed
  /\ burstLen > 0
  /\ timerPending
  /\ burstExpected # dataRef
  /\ dataRef = store

\* ------------------------------------------------------------------------
\* Properties of the selector hooks
\* ------------------------------------------------------------------------
\* C4: useNodeHoverPosition(nodeId) is the stored position if and only if the
\* hover's nodeId is nodeId and null otherwise, also when there is no hover;
\* so at most one node id has a hover position that is not null.
C4_HoverPosition ==
  /\ \A id \in QueryIds :
       /\ (~IsNullObj(hover) /\ hover.nodeId = id) => useNodeHoverPosition(id) = hover.position
       /\ (IsNullObj(hover) \/ hover.nodeId # id) => useNodeHoverPosition(id) = Null
  /\ Cardinality({id \in QueryIds : useNodeHoverPosition(id) # Null}) <= 1
  /\ result.hook = "useNodeHoverPosition" =>
       result.value = (IF IsNullObj(hover) THEN Null
                       ELSE IF hover.nodeId = result.nodeId THEN hover.position ELSE Null)
\* the hook was called for a node other than the hovered one
C4_Witness ==
  /\ ~IsNullObj(hover)
  /\ result.hook = "useNodeHoverPosition"
  /\ result.nodeId # hover.nodeId
  /\ result.value = Null
  /\ useNodeHoverPosition(hover.nodeId) \in Positions

\* the cells with a plugin among the ancestors of node i
RECURSIVE pluginCellsAbove(_)
pluginCellsAbove(i) ==
  LET p == parentOf[i]
  IN  IF p = 0 THEN {}
      ELSE (IF ~rowIndex(parentOf, p) /\ ~IsNullObj(cellAttr[p].plugin) THEN {p} ELSE {})
           \cup pluginCellsAbove(p)

\* C5: for every node useParentCellId is the id of the nearest proper ancestor
\* that is a cell with a plugin (the ancestor of greatest depth), never the
\* node's own id, undefined when there is no such ancestor; null for an id of
\* no node.
C5_ParentCell ==
  /\ \A i \in NodeIndex :
       LET above == pluginCellsAbove(i)
           value == useParentCellId(idOf(i))
       IN  /\ value # idOf(i)
           /\ above = {} => value = Undefined
           /\ above # {} =>
                \E p \in above :
                  /\ value = idOf(p)
                  /\ \A q \in above : depthOf(parentOf, q) <= depthOf(parentOf, p)
  /\ useParentCellId(MissingId) = Null
  /\ result.hook = "useParentCellId" => result.value = useParentCellId(result.nodeId)
\* the hook was called for a node that has two cells with a plugin above it
\* and returned the id of its parent
C5_Witness ==
  /\ result.hook = "useParentCellId"
  /\ \E i \in NodeIndex :
       /\ result.nodeId = idOf(i)
       /\ Cardinality(pluginCellsAbove(i)) >= 2
       /\ result.value = idOf(parentOf[i])

\* C6: the selector of useRowProps receives the row for the id of a row and
\* null for every other id, and the hook returns what the selector returns.
C6_RowSelectorAlwaysCalled ==
  result.hook = "useRowProps" =>
    result.value =
      (IF \E i \in NodeIndex : idOf(i) = result.nodeId /\ rowIndex(parentOf, i)
         THEN result.nodeId
         ELSE "no-row")

\* the ids of the ancestors of node i, nearest first, without the document
RECURSIVE pathAbove(_)
pathAbove(i) ==
  IF parentOf[i] = 0 THEN <<>> ELSE <<idOf(parentOf[i])>> \o pathAbove(parentOf[i])

\* C7: useNodeAsHoverTarget is null for an id of no node; for a node its id
\* is the node's id, its ancestorIds are the node's ancestors nearest first
\* without the document, and hasInlineNeighbour, inline and pluginId are null
\* for a row and the cell's own values for a cell.
C7_HoverTarget ==
  /\ \A i \in NodeIndex :
       LET target == useNodeAsHoverTarget(idOf(i))
       IN  /\ ~IsNullObj(target)
           /\ target.id = idOf(i)
           /\ target.ancestorIds = pathAbove(i)
           /\ RootId \notin {target.ancestorIds[k] : k \in 1..Len(target.ancestorIds)}
           /\ rowIndex(parentOf, i) =>
                /\ target.hasInlineNeighbour = Null
                /\ target.inline = Null
                /\ target.pluginId = Null
           /\ ~rowIndex(parentOf, i) =>
                /\ target.hasInlineNeighbour = cellAttr[i].hasInlineNeighbour
                /\ target.inline = cellAttr[i].inline
                /\ target.pluginId = (IF IsNullObj(cellAttr[i].plugin) THEN Undefined
                                      ELSE cellAttr[i].plugin.id)
  /\ IsNullObj(useNodeAsHoverTarget(MissingId))
  /\ result.hook = "useNodeAsHoverTarget" => result.value = useNodeAsHoverTarget(result.nodeId)
\* the hook was called for an inline cell with a plugin that lies below
\* another cell
C7_Witness ==
  /\ result.hook = "useNodeAsHoverTarget"
  /\ ~IsNullObj(result.value)
  /\ Len(result.value.ancestorIds) >= 3
  /\ result.value.inline = "left"
  /\ result.value.pluginId = "p2"

\* ------------------------------------------------------------------------
\* Properties of Draggable
\* ------------------------------------------------------------------------
cancelCount == Cardinality({k \in 1..Len(dispatched) : dispatched[k].type = "cancelCellDrag"})

\* C8: once a drag has begun, the first action dispatched is dragCell with the
\* id of the dragged cell; no cancelCellDrag is dispatched while the drag
\* goes on; when the drag has ended cancelCellDrag was dispatched once if no
\* drop occurred and not at all if one did.
C8_DragProtocol ==
  /\ phase = "idle" => dispatched = <<>>
  /\ phase # "idle" =>
       /\ Len(dispatched) >= 1
       /\ dispatched[1] = [type |-> "dragCell", id |-> dragNodeId]
       /\ \A k \in 2..Len(dispatched) : dispatched[k].type = "cancelCellDrag"
  /\ phase = "dragging" => cancelCount = 0
  /\ phase = "ended" => cancelCount = (IF didDrop THEN 0 ELSE 1)
\* a second drag ended without a drop
C8_Witness ==
  /\ phase = "ended"
  /\ ~didDrop
  /\ drags >= 2
  /\ cancelCount = 1

====
